---- MODULE Spec2Model ----
(***************************************************************************)
(* Permission core of the client SDK: the Permissions bit set, the         *)
(* Overwrite algebra, the split 64-bit encoding, compute_overwrites and    *)
(* the serde implementations (src/src/models/permission.rs), the           *)
(* permissions a command requires (src/src/api/command.rs and              *)
(* src/src/api/commands/room.rs) and the elevation level of UserFlags      *)
(* (src/src/models/user/mod.rs).                                           *)
(*                                                                         *)
(* Representation.  A u128 is the set of its set bit positions, a subset   *)
(* of 0..127 (bit 0 least significant).  A u64 or an i64 is the set of the *)
(* set bit positions of its 64-bit two's-complement pattern, a subset of   *)
(* 0..63; an i64 is negative iff bit 63 is in its pattern.  The integer    *)
(* casts and shifts of the source are operators on these patterns.         *)
(*                                                                         *)
(* Every function of the module is pure, so one behaviour of the model is  *)
(* one call: Init is the state before the call, each action is one         *)
(* function applied to inputs drawn from the palettes below, and the call  *)
(* and its result are recorded in op, args and ret.                        *)
(***************************************************************************)
EXTENDS Integers, Sequences, FiniteSets, TLC

VARIABLES
    cfg_test,   \* TRUE in a build with cfg(test): the TEST flag is defined
    op,         \* the function that was called, "idle" before the call
    args,       \* the arguments of the call
    ret         \* the value the call returned

vars == <<cfg_test, op, args, ret>>

---------------------------------------------------------------------------
(* Bounds of the model *)

MaxOverwrites == 2
MaxRoles == 2

---------------------------------------------------------------------------
(* Integer widths and casts *)

U64Positions == 0..63
U128Positions == 0..127

\* 1u128 << n
Bit(n) == {n}

\* x << n on u128: bits shifted past position 127 are lost
Shl(x, n) == {b + n : b \in x} \cap U128Positions

\* x >> n on u128
Shr(x, n) == {b - n : b \in {c \in x : c >= n}}

\* `v as u64` for v: i64 keeps the 64-bit pattern
I64AsU64(v) == v \cap U64Positions

\* `v as u128` for v: u64 zero-extends
U64AsU128(v) == v \cap U64Positions

\* `v as u64` for v: u128 keeps the low 64 bits
U128AsU64(v) == v \cap U64Positions

\* `v as i64` for v: u64 keeps the 64-bit pattern
U64AsI64(v) == v \cap U64Positions

\* `v as u128` for v: i64 sign-extends: a negative v sets bits 64..127
I64AsU128(v) == IF 63 \in v THEN (v \cap U64Positions) \cup (64..127)
                ELSE v \cap U64Positions

\* the i64 value 0
I64Zero == {}

IsNegative(v) == 63 \in v

---------------------------------------------------------------------------
(* bitflags! Permissions: u128 *)

ADMINISTRATOR == Bit(0)
CREATE_INVITE == Bit(1)
KICK_MEMBERS == Bit(2)
BAN_MEMBERS == Bit(3)
VIEW_AUDIT_LOG == Bit(4)
VIEW_STATISTICS == Bit(5)
MANAGE_PARTY == Bit(6)
MANAGE_ROOMS == Bit(7)
MANAGE_NICKNAMES == Bit(8)
MANAGE_ROLES == Bit(9)
MANAGE_WEBHOOKS == Bit(10)
MANAGE_EXPRESSIONS == Bit(11)
MOVE_MEMBERS == Bit(12)
CHANGE_NICKNAME == Bit(13)
MANAGE_PERMS == Bit(14)

VIEW_ROOM == Bit(30)
READ_MESSAGE_HISTORY == Bit(31) \cup VIEW_ROOM
\* (mutant) SEND_MESSAGES is its own bit alone, without the VIEW_ROOM bit
SEND_MESSAGES_OwnBitOnly == Bit(32)
SEND_MESSAGES == Bit(32) \cup VIEW_ROOM
MANAGE_MESSAGES == Bit(33)
MUTE_MEMBERS == Bit(34)
DEAFEN_MEMBERS == Bit(35)
MENTION_EVERYONE == Bit(36)
USE_EXTERNAL_EMOTES == Bit(37)
ADD_REACTIONS == Bit(38)
EMBED_LINKS == Bit(39)
ATTACH_FILES == Bit(40)
USE_SLASH_COMMANDS == Bit(41)
SEND_TTS_MESSAGES == Bit(42)
EDIT_NEW_ATTACHMENT == Bit(43)

STREAM == Bit(60)
CONNECT == Bit(61)
SPEAK == Bit(62)
PRIORITY_SPEAKER == Bit(63)

\* #[cfg(test)] const TEST = 1u128 << 127
TEST == Bit(127)

DEFAULT ==
    CHANGE_NICKNAME \cup VIEW_ROOM \cup READ_MESSAGE_HISTORY \cup SEND_MESSAGES
    \cup USE_EXTERNAL_EMOTES \cup ADD_REACTIONS \cup EMBED_LINKS \cup ATTACH_FILES
    \cup SEND_TTS_MESSAGES \cup CONNECT \cup SPEAK

\* Permissions::empty()
empty == {}

\* Permissions::all(): the union of the flags the build defines
all ==
    DEFAULT \cup ADMINISTRATOR \cup CREATE_INVITE \cup KICK_MEMBERS \cup BAN_MEMBERS
    \cup VIEW_AUDIT_LOG \cup VIEW_STATISTICS \cup MANAGE_PARTY \cup MANAGE_ROOMS
    \cup MANAGE_NICKNAMES \cup MANAGE_ROLES \cup MANAGE_WEBHOOKS
    \cup MANAGE_EXPRESSIONS \cup MOVE_MEMBERS \cup CHANGE_NICKNAME \cup MANAGE_PERMS
    \cup VIEW_ROOM \cup READ_MESSAGE_HISTORY \cup SEND_MESSAGES \cup MANAGE_MESSAGES
    \cup MUTE_MEMBERS \cup DEAFEN_MEMBERS \cup MENTION_EVERYONE
    \cup USE_EXTERNAL_EMOTES \cup ADD_REACTIONS \cup EMBED_LINKS \cup ATTACH_FILES
    \cup USE_SLASH_COMMANDS \cup SEND_TTS_MESSAGES \cup EDIT_NEW_ATTACHMENT
    \cup STREAM \cup CONNECT \cup SPEAK \cup PRIORITY_SPEAKER
    \cup (IF cfg_test THEN TEST ELSE {})

\* (mutant) the derived Default of bitflags: no flag
default_Empty == empty

\* impl Default for Permissions
default == DEFAULT

\* (mutant) the raw bits are kept as they are, as from_bits_unchecked does
from_bits_truncate_Unchecked(bits) == bits

\* Permissions::from_bits_truncate(bits): bits of no defined flag are dropped
from_bits_truncate(bits) == bits \cap all

\* Permissions::contains(self, other)
contains(self, other) == other \subseteq self

\* impl BitOr / BitAnd / Not for Permissions; Not truncates to defined bits
BitOr(a, b) == a \cup b
BitAnd(a, b) == a \cap b
Not(a) == from_bits_truncate(U128Positions \ a)

---------------------------------------------------------------------------
(* Option<T> *)

None == [tag |-> "None"]
Some(v) == [tag |-> "Some", val |-> v]

---------------------------------------------------------------------------
(* struct Overwrite { id, allow, deny } *)

Overwrite(id, allow, deny) == [id |-> id, allow |-> allow, deny |-> deny]

\* (mutant) the id of the argument is kept instead of the receiver's
combine_OtherId(self, other) ==
    Overwrite(other.id, BitOr(self.allow, other.allow), BitOr(self.deny, other.deny))

\* (mutant) the deny of the other overwrite is dropped
combine_DenyDropped(self, other) ==
    Overwrite(self.id, BitOr(self.allow, other.allow), self.deny)

\* Overwrite::combine(&self, other)
combine(self, other) ==
    Overwrite(self.id, BitOr(self.allow, other.allow), BitOr(self.deny, other.deny))

\* (mutant) allow and deny are taken from the wrong fields
apply_FieldsSwapped(self, base) == BitOr(BitAnd(base, Not(self.allow)), self.deny)

\* (mutant) the deny is subtracted after the allow is added
apply_DenyLast(self, base) == BitAnd(BitOr(base, self.allow), Not(self.deny))

\* Overwrite::apply(&self, base)
apply(self, base) == BitOr(BitAnd(base, Not(self.deny)), self.allow)

---------------------------------------------------------------------------
(* Split encoding: one u128 as two i64 halves *)

\* (mutant) `low as u128` without the cast to u64 in between: sign extension
from_i64_SignExtended(low, high) ==
    from_bits_truncate(I64AsU128(low) \cup Shl(U64AsU128(I64AsU64(high)), 64))

\* Permissions::from_i64(low, high)
from_i64(low, high) ==
    from_bits_truncate(
        U64AsU128(I64AsU64(low)) \cup Shl(U64AsU128(I64AsU64(high)), 64))

\* (mutant) the second match is on `low` again
from_i64_opt_LowTwice(low, high) ==
    from_i64(
        IF low.tag = "Some" THEN low.val ELSE I64Zero,
        IF low.tag = "Some" THEN low.val ELSE I64Zero)

\* Permissions::from_i64_opt(low, high)
from_i64_opt(low, high) ==
    from_i64(
        IF low.tag = "Some" THEN low.val ELSE I64Zero,
        IF high.tag = "Some" THEN high.val ELSE I64Zero)

\* (mutant) the high half is taken without the shift
to_i64_NoShift(self) ==
    LET bits == self
        low == U64AsI64(U128AsU64(bits))
        high == U64AsI64(U128AsU64(bits))
    IN  <<low, high>>

\* Permissions::to_i64(self): <<low, high>>
to_i64(self) ==
    LET bits == self
        low == U64AsI64(U128AsU64(bits))
        high == U64AsI64(U128AsU64(Shr(bits, 64)))
    IN  <<low, high>>

\* tests::test_perm_cast, for a value v
test_perm_cast(v) ==
    LET halves == to_i64(v)
    IN  from_i64(halves[1], halves[2])

---------------------------------------------------------------------------
(* compute_overwrites *)

\* Permissions::is_admin(self)
is_admin(self) == contains(self, ADMINISTRATOR)

\* roles.contains(&id) on a slice
SliceContains(slice, x) == \E i \in 1..Len(slice) : slice[i] = x

\* (mutant) no `break`: the scan goes on after an entry of the user, and the
\* last such entry is the one recorded
RECURSIVE ScanOverwrites_NoBreak(_, _, _, _, _, _)
ScanOverwrites_NoBreak(overwrites, i, roles, user_id, allow, deny) ==
    IF i > Len(overwrites)
    THEN [allow |-> allow, deny |-> deny, user_overwrite |-> None]
    ELSE LET overwrite == overwrites[i]
         IN  IF SliceContains(roles, overwrite.id)
             THEN ScanOverwrites_NoBreak(overwrites, i + 1, roles, user_id,
                                         BitOr(allow, overwrite.allow),
                                         BitOr(deny, overwrite.deny))
             ELSE IF overwrite.id = user_id
             THEN LET rest == ScanOverwrites_NoBreak(overwrites, i + 1, roles,
                                                     user_id, allow, deny)
                  IN  [rest EXCEPT !.user_overwrite =
                          IF rest.user_overwrite.tag = "Some"
                          THEN rest.user_overwrite
                          ELSE Some(<<overwrite.deny, overwrite.allow>>)]
             ELSE ScanOverwrites_NoBreak(overwrites, i + 1, roles, user_id,
                                         allow, deny)

\* (mutant) a matching role overwrite replaces the running allow and deny
\* instead of being added to them: the last role entry shadows the others
RECURSIVE ScanOverwrites_Shadowing(_, _, _, _, _, _)
ScanOverwrites_Shadowing(overwrites, i, roles, user_id, allow, deny) ==
    IF i > Len(overwrites)
    THEN [allow |-> allow, deny |-> deny, user_overwrite |-> None]
    ELSE LET overwrite == overwrites[i]
         IN  IF SliceContains(roles, overwrite.id)
             THEN ScanOverwrites_Shadowing(overwrites, i + 1, roles, user_id,
                                           overwrite.allow, overwrite.deny)
             ELSE IF overwrite.id = user_id
             THEN [allow |-> allow, deny |-> deny,
                   user_overwrite |-> Some(<<overwrite.deny, overwrite.allow>>)]
             ELSE ScanOverwrites_Shadowing(overwrites, i + 1, roles, user_id,
                                           allow, deny)

\* (mutant) an entry of another subject is accumulated like a role entry
RECURSIVE ScanOverwrites_AnyId(_, _, _, _, _, _)
ScanOverwrites_AnyId(overwrites, i, roles, user_id, allow, deny) ==
    IF i > Len(overwrites)
    THEN [allow |-> allow, deny |-> deny, user_overwrite |-> None]
    ELSE LET overwrite == overwrites[i]
         IN  IF overwrite.id = user_id /\ ~SliceContains(roles, overwrite.id)
             THEN [allow |-> allow, deny |-> deny,
                   user_overwrite |-> Some(<<overwrite.deny, overwrite.allow>>)]
             ELSE ScanOverwrites_AnyId(overwrites, i + 1, roles, user_id,
                                       BitOr(allow, overwrite.allow),
                                       BitOr(deny, overwrite.deny))

\* (mutant) the two tests of the loop in the other order: an entry whose id
\* equals user_id is the user overwrite even when the id is also a role
RECURSIVE ScanOverwrites_UserFirst(_, _, _, _, _, _)
ScanOverwrites_UserFirst(overwrites, i, roles, user_id, allow, deny) ==
    IF i > Len(overwrites)
    THEN [allow |-> allow, deny |-> deny, user_overwrite |-> None]
    ELSE LET overwrite == overwrites[i]
         IN  IF overwrite.id = user_id
             THEN [allow |-> allow, deny |-> deny,
                   user_overwrite |-> Some(<<overwrite.deny, overwrite.allow>>)]
             ELSE IF SliceContains(roles, overwrite.id)
             THEN ScanOverwrites_UserFirst(overwrites, i + 1, roles, user_id,
                                           BitOr(allow, overwrite.allow),
                                           BitOr(deny, overwrite.deny))
             ELSE ScanOverwrites_UserFirst(overwrites, i + 1, roles, user_id,
                                           allow, deny)

\* The `for overwrite in overwrites` loop from entry i on, with the running
\* allow and deny; it ends at the end of the list or at the `break`.
RECURSIVE ScanOverwrites(_, _, _, _, _, _)
ScanOverwrites(overwrites, i, roles, user_id, allow, deny) ==
    IF i > Len(overwrites)
    THEN [allow |-> allow, deny |-> deny, user_overwrite |-> None]
    ELSE LET overwrite == overwrites[i]
         IN  IF SliceContains(roles, overwrite.id)
             THEN ScanOverwrites(overwrites, i + 1, roles, user_id,
                                 BitOr(allow, overwrite.allow),
                                 BitOr(deny, overwrite.deny))
             ELSE IF overwrite.id = user_id
             THEN [allow |-> allow, deny |-> deny,
                   user_overwrite |-> Some(<<overwrite.deny, overwrite.allow>>)]
             ELSE ScanOverwrites(overwrites, i + 1, roles, user_id, allow, deny)

\* (mutant) the role-level allow is added before the deny is subtracted
ApplyRoleOverwrites_AllowFirst(self, allow, deny) ==
    BitAnd(BitOr(self, allow), Not(deny))

\* `self &= !deny; self |= allow;` after the loop
ApplyRoleOverwrites(self, allow, deny) ==
    BitOr(BitAnd(self, Not(deny)), allow)

\* (mutant) the user overwrite is found but never applied
ApplyUserOverwrite_Skipped(self, user_overwrite) == self

\* `if let Some((user_deny, user_allow)) = user_overwrite { ... }`
ApplyUserOverwrite(self, user_overwrite) ==
    IF user_overwrite.tag = "Some"
    THEN LET user_deny == user_overwrite.val[1]
             user_allow == user_overwrite.val[2]
         IN  BitOr(BitAnd(self, Not(user_deny)), user_allow)
    ELSE self

\* (mutant) every matching role overwrite is applied in turn, deny then allow,
\* instead of being accumulated and applied once
RECURSIVE ApplySequentially(_, _, _, _, _)
ApplySequentially(self, overwrites, i, roles, user_id) ==
    IF i > Len(overwrites)
    THEN self
    ELSE LET overwrite == overwrites[i]
         IN  IF SliceContains(roles, overwrite.id)
             THEN ApplySequentially(apply(overwrite, self), overwrites, i + 1,
                                    roles, user_id)
             ELSE IF overwrite.id = user_id
             THEN apply(overwrite, self)
             ELSE ApplySequentially(self, overwrites, i + 1, roles, user_id)

compute_overwrites_Sequential(self, overwrites, roles, user_id) ==
    IF contains(self, ADMINISTRATOR)
    THEN all
    ELSE ApplySequentially(self, overwrites, 1, roles, user_id)

\* (mutant) no early return for an administrator
compute_overwrites_NoAdminReturn(self, overwrites, roles, user_id) ==
    LET scan == ScanOverwrites(overwrites, 1, roles, user_id, empty, empty)
    IN  ApplyUserOverwrite(ApplyRoleOverwrites(self, scan.allow, scan.deny),
                           scan.user_overwrite)

\* (mutant) the administrator check is made again on the result
compute_overwrites_AdminRecheck(self, overwrites, roles, user_id) ==
    LET result == compute_overwrites_NoAdminReturn(self, overwrites, roles, user_id)
    IN  IF contains(self, ADMINISTRATOR) \/ contains(result, ADMINISTRATOR)
        THEN all
        ELSE result

\* Permissions::compute_overwrites(self, overwrites, roles, user_id)
compute_overwrites(self, overwrites, roles, user_id) ==
    IF contains(self, ADMINISTRATOR)
    THEN all
    ELSE LET scan == ScanOverwrites(overwrites, 1, roles, user_id, empty, empty)
         IN  ApplyUserOverwrite(ApplyRoleOverwrites(self, scan.allow, scan.deny),
                                scan.user_overwrite)

---------------------------------------------------------------------------
(* serde: Serialize and Deserialize for Permissions *)

\* Result<T, E>
Ok(v) == [tag |-> "Ok", val |-> v]
Err(e) == [tag |-> "Err", err |-> e]

\* a value of the serde data model: an integer of some type by its pattern, a
\* str by the sequence of its chars, or a value of another type
Value(kind, v) == [kind |-> kind, v |-> v]

\* `v as u128` for v: i128 keeps the 128-bit pattern
I128AsU128(v) == v \cap U128Positions

DecimalDigits == <<"0", "1", "2", "3", "4", "5", "6", "7", "8", "9">>

\* char::to_digit(10)
to_digit(c) ==
    IF \E d \in 1..10 : DecimalDigits[d] = c
    THEN Some((CHOOSE d \in 1..10 : DecimalDigits[d] = c) - 1)
    ELSE None

\* u128 arithmetic is done on the eight 16-bit limbs of a value, limb 0 the
\* least significant
LimbPositions == 0..15
LimbIndexes == 0..7

RECURSIVE LimbValue(_, _, _)
\* the value of limb k of the u128 n, from bit i of the limb up
LimbValue(n, k, i) ==
    IF i \notin LimbPositions
    THEN 0
    ELSE (IF (16 * k + i) \in n THEN 2 ^ i ELSE 0) + LimbValue(n, k, i + 1)

Limbs(n) == [k \in LimbIndexes |-> LimbValue(n, k, 0)]

\* the u128 of eight limbs
LimbBits(limbs) ==
    {p \in U128Positions : (limbs[p \div 16] \div (2 ^ (p % 16))) % 2 = 1}

\* limbs * m + carry from limb k up: the limbs of the result and the carry out
RECURSIVE MulAddLimbs(_, _, _, _)
MulAddLimbs(limbs, m, k, carry) ==
    IF k \notin LimbIndexes
    THEN [limbs |-> limbs, carry |-> carry]
    ELSE LET t == limbs[k] * m + carry
         IN  MulAddLimbs([limbs EXCEPT ![k] = t % 65536], m, k + 1, t \div 65536)

\* u128::checked_mul(a, 10): None when the product does not fit
checked_mul_10(a) ==
    LET product == MulAddLimbs(Limbs(a), 10, 0, 0)
    IN  IF product.carry = 0 THEN Some(LimbBits(product.limbs)) ELSE None

\* u128::checked_add(a, x) for a digit x: None when the sum does not fit
checked_add(a, x) ==
    LET sum == MulAddLimbs(Limbs(a), 1, 0, x)
    IN  IF sum.carry = 0 THEN Some(LimbBits(sum.limbs)) ELSE None

\* the digit loop of u128::from_str_radix(src, 10), from char i on
RECURSIVE ParseDigits(_, _, _)
ParseDigits(digits, i, result) ==
    IF i > Len(digits)
    THEN Ok(result)
    ELSE LET mul == checked_mul_10(result)
             x == to_digit(digits[i])
         IN  IF x.tag = "None" THEN Err("InvalidDigit")
             ELSE IF mul.tag = "None" THEN Err("PosOverflow")
             ELSE LET sum == checked_add(mul.val, x.val)
                  IN  IF sum.tag = "None" THEN Err("PosOverflow")
                      ELSE ParseDigits(digits, i + 1, sum.val)

\* str::parse::<u128>(): an optional '+' and at least one digit; no '-'
parse(src) ==
    IF Len(src) = 0 THEN Err("Empty")
    ELSE IF Len(src) = 1 /\ src[1] \in {"+", "-"} THEN Err("InvalidDigit")
    ELSE IF src[1] = "+" THEN ParseDigits(Tail(src), 1, {})
    ELSE ParseDigits(src, 1, {})

\* limbs / 10 and limbs % 10 by long division from limb k down, r the running
\* remainder
RECURSIVE DivMod10(_, _, _)
DivMod10(limbs, k, r) ==
    IF k \notin LimbIndexes
    THEN [quot |-> limbs, rem |-> r]
    ELSE LET t == r * 65536 + limbs[k]
         IN  DivMod10([limbs EXCEPT ![k] = t \div 10], k - 1, t % 10)

\* the digits of n in front of acc, the last digit first
RECURSIVE FormatDigits(_, _)
FormatDigits(n, acc) ==
    IF n = {}
    THEN acc
    ELSE LET dm == DivMod10(Limbs(n), 7, 0)
         IN  FormatDigits(LimbBits(dm.quot), <<DecimalDigits[dm.rem + 1]>> \o acc)

\* itoa::Buffer::new().format(n) for n: u128
itoa_format(n) == IF n = {} THEN <<"0">> ELSE FormatDigits(n, <<>>)

\* (mutant) the raw integer is written on every surface
serialize_NeverString(self, is_human_readable) == Value("u128", self)

\* impl Serialize for Permissions
serialize(self, is_human_readable) ==
    IF is_human_readable
    THEN Value("str", itoa_format(self))
    ELSE Value("u128", self)

\* PermissionsVisitor::visit_u128
visit_u128(v) == Ok(from_bits_truncate(v))

\* PermissionsVisitor::visit_u64
visit_u64(v) == Ok(from_bits_truncate(U64AsU128(v)))

\* PermissionsVisitor::visit_i128
visit_i128(v) == Ok(from_bits_truncate(I128AsU128(v)))

\* PermissionsVisitor::visit_i64: `v as _` is a cast from i64 to u128
visit_i64(v) == Ok(from_bits_truncate(I64AsU128(v)))

\* (mutant) a string with a bit of no flag is refused, as from_bits would
visit_str_Strict(v) ==
    LET parsed == parse(v)
    IN  IF parsed.tag = "Ok"
        THEN IF parsed.val \subseteq all THEN Ok(parsed.val) ELSE Err("unknown bits")
        ELSE Err(parsed.err)

\* PermissionsVisitor::visit_str
visit_str(v) ==
    LET parsed == parse(v)
    IN  IF parsed.tag = "Ok"
        THEN Ok(from_bits_truncate(parsed.val))
        ELSE Err(parsed.err)

\* impl Deserialize for Permissions: deserialize_any calls the visitor method
\* of the type of the input; the visitor has none for the other types
deserialize(input) ==
    CASE input.kind = "u128" -> visit_u128(input.v)
      [] input.kind = "u64" -> visit_u64(input.v)
      [] input.kind = "i128" -> visit_i128(input.v)
      [] input.kind = "i64" -> visit_i64(input.v)
      [] input.kind = "str" -> visit_str(input.v)
      [] OTHER -> Err("invalid type: expected 128-bit integer or numeric string")

\* serialize and then deserialize what was written
serde_round_trip(v, is_human_readable) ==
    LET written == serialize(v, is_human_readable)
    IN  [ser |-> written, de |-> deserialize(written)]

---------------------------------------------------------------------------
(* command!: the permissions a command requires (Command::perms) *)

\* perms!(A | B | ...): the union of the named flags, empty() for no flag
perms_macro(flags) == UNION {flags[i] : i \in DOMAIN flags}

\* One `where PERM if cond` rule of a field.  Every rule of the commands
\* below has the condition `!field.is_empty()`, so a rule names its field.
FieldRule(field_perm, field_name) ==
    [field_perm |-> field_perm, field_name |-> field_name]

\* What the commands of api/commands/room.rs hand to command!: the flags of
\* the command's `where`, the rules of its top-level fields ($cond) and the
\* rules of the fields of its body struct ($body_field_cond).
Commands ==
    {"CreateMessage", "EditMessage", "GetMessage", "StartTyping", "GetMessages",
     "PinMessage", "PatchRoom"}

Declaration(name) ==
    CASE name = "CreateMessage" ->
            [perm |-> <<SEND_MESSAGES>>,
             field_rules |-> <<>>,
             body_field_rules |-> <<FieldRule(<<ATTACH_FILES>>, "attachments"),
                                    FieldRule(<<EMBED_LINKS>>, "embeds")>>]
      [] name \in {"EditMessage", "StartTyping"} ->
            [perm |-> <<SEND_MESSAGES>>,
             field_rules |-> <<>>, body_field_rules |-> <<>>]
      [] name \in {"GetMessage", "GetMessages"} ->
            [perm |-> <<READ_MESSAGE_HISTORY>>,
             field_rules |-> <<>>, body_field_rules |-> <<>>]
      [] OTHER ->
            [perm |-> <<>>, field_rules |-> <<>>, body_field_rules |-> <<>>]

\* A command instance: its type and the list fields the rules look at (a
\* list the type does not declare is empty).
Command(name, attachments, embeds) ==
    [command |-> name, attachments |-> attachments, embeds |-> embeds]

\* cond of a rule on an instance: !field.is_empty()
cond(self, rule) == self[rule.field_name] # <<>>

\* $($( if $cond { base |= perms!(...) } )?)* from rule i on
RECURSIVE FoldFieldRules(_, _, _, _)
FoldFieldRules(rules, i, self, base) ==
    IF i > Len(rules)
    THEN base
    ELSE FoldFieldRules(rules, i + 1, self,
                        IF cond(self, rules[i])
                        THEN BitOr(base, perms_macro(rules[i].field_perm))
                        ELSE base)

\* (mutant) the command's own `where` is left out
perms_NoBase(self) ==
    FoldFieldRules(Declaration(self.command).field_rules, 1, self, empty)

\* fn perms(&self): the repetition runs over the rules of the top-level
\* fields only; the fields of the body struct are bound but their rules are
\* not expanded.
perms(self) ==
    LET decl == Declaration(self.command)
    IN  FoldFieldRules(decl.field_rules, 1, self, perms_macro(decl.perm))

---------------------------------------------------------------------------
(* bitflags! UserFlags: i32, and the elevation level it carries *)

\* An i32 is the set of the set bit positions of its 32-bit pattern.
I32Positions == 0..31

BANNED == Bit(0)
VERIFIED == Bit(1)
MFA_ENABLED == Bit(2)
NEEDS_PASSWORD_RESET == Bit(3)
RESERVED_1 == Bit(4)
RESERVED_2 == Bit(5)
ELEVATION_1 == Bit(6)
ELEVATION_2 == Bit(7)
ELEVATION_3 == Bit(8)
PREMIUM_1 == Bit(9)
PREMIUM_2 == Bit(10)
PREMIUM_3 == Bit(11)
RESERVED_3 == Bit(12)
EXTRA_STORAGE_1 == Bit(13)
EXTRA_STORAGE_2 == Bit(14)
RESERVED_4 == Bit(15)

RESERVED == RESERVED_1 \cup RESERVED_2 \cup RESERVED_3 \cup RESERVED_4
EXTRA_STORAGE == EXTRA_STORAGE_1 \cup EXTRA_STORAGE_2
PRIVATE_FLAGS ==
    BANNED \cup VERIFIED \cup MFA_ENABLED \cup NEEDS_PASSWORD_RESET
    \cup EXTRA_STORAGE \cup RESERVED
ELEVATION == ELEVATION_1 \cup ELEVATION_2 \cup ELEVATION_3
PREMIUM == PREMIUM_1 \cup PREMIUM_2 \cup PREMIUM_3

\* UserFlags::empty(), UserFlags::all()
UserFlags_empty == {}
UserFlags_all == PRIVATE_FLAGS \cup ELEVATION \cup PREMIUM

UserFlags_from_bits_truncate(bits) == bits \cap UserFlags_all
difference(self, other) == self \ other
union(self, other) == self \cup other

\* enum ElevationLevel, #[repr(u8)]
ElevationLevels == {"None", "Bot", "Reserved", "Staff", "System"}

\* ev as u8
ElevationAsU8(ev) ==
    CASE ev = "None" -> 0
      [] ev = "Bot" -> 1
      [] ev = "Reserved" -> 2
      [] ev = "Staff" -> 3
      [] ev = "System" -> 4

\* u8 as i32: the pattern of a value below 2^8, zero-extended
U8AsI32(n) == {p \in 0..7 : (n \div (2 ^ p)) % 2 = 1}

\* i32 << n and i32 >> n (arithmetic: the sign bit is copied in)
I32Shl(x, n) == {p + n : p \in x} \cap I32Positions
I32Shr(x, n) ==
    {p - n : p \in {q \in x : q >= n}}
    \cup (IF 31 \in x THEN {p \in I32Positions : p > 31 - n} ELSE {})

\* The number a non-negative i32 pattern stands for, from bit p up
RECURSIVE I32Value(_, _)
I32Value(x, p) ==
    IF p > 30 THEN 0
    ELSE (IF p \in x THEN 2 ^ p ELSE 0) + I32Value(x, p + 1)

\* UserFlags::elevation
elevation(self) ==
    LET level == I32Value(I32Shr(BitAnd(self, ELEVATION), 6), 0)
    IN  CASE level = 1 -> "Bot"
          [] level = 3 -> "Staff"
          [] level = 4 -> "System"
          [] OTHER -> "None"

\* (mutant) the old level is not cleared before the new one is set
with_elevation_NoClear(self, ev) ==
    union(self, UserFlags_from_bits_truncate(I32Shl(U8AsI32(ElevationAsU8(ev)), 6)))

\* UserFlags::with_elevation
with_elevation(self, ev) ==
    union(difference(self, ELEVATION),
          UserFlags_from_bits_truncate(I32Shl(U8AsI32(ElevationAsU8(ev)), 6)))

---------------------------------------------------------------------------
(* Inputs *)

SeqsUpTo(S, n) == UNION {[1..k -> S] : k \in 0..n}

\* Snowflake ids of roles and users
Snowflakes == {1, 2, 3}

\* <<allow, deny>> of the overwrites of a room: a flag allowed, denied, both,
\* a composite flag denied with its shared member allowed, ADMINISTRATOR
\* allowed or denied, and the shared member alone denied
OverwriteRules ==
    {<<SEND_MESSAGES, empty>>, <<empty, SEND_MESSAGES>>,
     <<SEND_MESSAGES, SEND_MESSAGES>>, <<VIEW_ROOM, SEND_MESSAGES>>,
     <<ADMINISTRATOR, empty>>, <<empty, ADMINISTRATOR>>, <<empty, VIEW_ROOM>>}

\* the overwrites of a room
Overwrites ==
    {Overwrite(id, rule[1], rule[2]) : id \in Snowflakes, rule \in OverwriteRules}

\* ids of the roles of an actor and of the actor: 2 may be both
RoleIds == {1, 2}
UserIds == {2, 3}

\* base permissions of an actor
BasePerms ==
    {empty, VIEW_ROOM, READ_MESSAGE_HISTORY,
     ADMINISTRATOR, ADMINISTRATOR \cup SEND_MESSAGES}

\* Permissions values for the Overwrite primitives
SomePerms ==
    {empty, VIEW_ROOM, SEND_MESSAGES, READ_MESSAGE_HISTORY, ADMINISTRATOR,
     DEFAULT, all}

AnyOverwrites == [id : Snowflakes, allow : SomePerms, deny : SomePerms]

\* Permissions values of the build: unions of a few flags, DEFAULT and all()
FlagPalette ==
    {ADMINISTRATOR, VIEW_ROOM, READ_MESSAGE_HISTORY, SEND_MESSAGES,
     PRIORITY_SPEAKER} \cup (IF cfg_test THEN {TEST} ELSE {})

PermValues == {UNION S : S \in SUBSET FlagPalette} \cup {DEFAULT, all}

\* i64 values by their patterns: 0, 1, -1, i64::MIN, i64::MAX and a few others
I64Values ==
    {{}, {0}, U64Positions, {63}, 0..62, {30, 32}, {0, 63}, {62, 63}}

OptionI64 == {None} \cup {Some(v) : v \in I64Values}

\* raw u128 values: 0, defined bits, bits of no flag (15, 64, 100), bit 127,
\* u128::MAX and mixtures
U128Raws ==
    {{}, ADMINISTRATOR, Bit(15), Bit(64), Bit(127), U128Positions,
     DEFAULT \cup Bit(100), SEND_MESSAGES \cup Bit(15) \cup Bit(127),
     U64Positions, 64..127}

\* i128 values by their patterns: 0, 1, -1, i128::MIN and a few others
I128Values ==
    {{}, {0}, U128Positions, {127}, Bit(15) \cup SEND_MESSAGES, 64..127}

\* the decimal strings of u128::MAX and of u128::MAX + 1
U128MaxDigits ==
    <<"3", "4", "0", "2", "8", "2", "3", "6", "6", "9", "2", "0", "9", "3", "8", "4", "6", "3", "4", "6", "3", "3", "7", "4", "6", "0", "7", "4", "3", "1", "7", "6", "8", "2", "1", "1", "4", "5", "5">>
U128OverflowDigits ==
    <<"3", "4", "0", "2", "8", "2", "3", "6", "6", "9", "2", "0", "9", "3", "8", "4", "6", "3", "4", "6", "3", "3", "7", "4", "6", "0", "7", "4", "3", "1", "7", "6", "8", "2", "1", "1", "4", "5", "6">>

\* strings: decimal numbers (with a bit of no flag, with bit 127, the largest
\* u128, with a sign, with leading zeros), a number too large, and no numbers
StrValues ==
    {<<"0">>, <<"1">>, <<"1", "0", "7", "3", "7", "4", "1", "8", "2", "4">>, <<"3", "2", "7", "6", "8">>, <<"1", "7", "0", "1", "4", "1", "1", "8", "3", "4", "6", "0", "4", "6", "9", "2", "3", "1", "7", "3", "1", "6", "8", "7", "3", "0", "3", "7", "1", "5", "8", "8", "4", "1", "0", "5", "7", "2", "8">>,
     <<"+", "5">>, <<"0", "0", "7">>, U128MaxDigits, U128OverflowDigits,
     <<"-", "1">>, <<"-">>, <<"+">>, <<>>, <<"a", "b", "c">>, <<"1", "2", "a">>,
     <<"1", ".", "5">>, <<" ", "1">>}

\* what a format can hand to the visitor: integers, and strings and values of
\* the types the visitor has no method for (their content plays no part)
SerdeIntegers ==
    {Value("u128", v) : v \in U128Raws}
        \cup {Value("u64", v) : v \in I64Values}
        \cup {Value("i128", v) : v \in I128Values}
        \cup {Value("i64", v) : v \in I64Values}

SerdeOthers ==
    {Value("str", v) : v \in StrValues}
        \cup {Value("f64", <<>>), Value("bool", <<>>), Value("unit", <<>>)}


\* Command instances: attachments for the commands with that field, embeds
\* for CreateMessage
AttachmentLists == {<<>>, <<1>>, <<1, 2>>}
EmbedLists == {<<>>, <<"embed">>}
CommandInstances ==
    {Command(name, attachments, embeds) :
        name \in Commands, attachments \in AttachmentLists, embeds \in EmbedLists}


\* UserFlags values: every elevation pattern, alone and beside other flags
UserFlagValues ==
    {union(e, rest) :
        e \in SUBSET ELEVATION,
        rest \in {UserFlags_empty, UserFlags_all \ ELEVATION, VERIFIED,
                  PREMIUM_1 \cup RESERVED_2}}

---------------------------------------------------------------------------
(* One call *)

Init ==
    /\ cfg_test \in BOOLEAN
    /\ op = "idle"
    /\ args = <<>>
    /\ ret = <<>>

ComputeOverwrites ==
    /\ op = "idle"
    /\ \E self \in BasePerms, overwrites \in SeqsUpTo(Overwrites, MaxOverwrites),
          roles \in SeqsUpTo(RoleIds, MaxRoles), user_id \in UserIds :
        /\ op' = "compute_overwrites"
        /\ args' = [self |-> self, overwrites |-> overwrites,
                    roles |-> roles, user_id |-> user_id]
        /\ ret' = compute_overwrites(self, overwrites, roles, user_id)
    /\ UNCHANGED cfg_test

Apply ==
    /\ op = "idle"
    /\ \E self \in AnyOverwrites, base \in SomePerms :
        /\ op' = "apply"
        /\ args' = [self |-> self, base |-> base]
        /\ ret' = apply(self, base)
    /\ UNCHANGED cfg_test

Combine ==
    /\ op = "idle"
    /\ \E self \in AnyOverwrites, other \in AnyOverwrites :
        /\ op' = "combine"
        /\ args' = [self |-> self, other |-> other]
        /\ ret' = combine(self, other)
    /\ UNCHANGED cfg_test

FromI64 ==
    /\ op = "idle"
    /\ \E low \in I64Values, high \in I64Values :
        /\ op' = "from_i64"
        /\ args' = [low |-> low, high |-> high]
        /\ ret' = from_i64(low, high)
    /\ UNCHANGED cfg_test

FromI64Opt ==
    /\ op = "idle"
    /\ \E low \in OptionI64, high \in OptionI64 :
        /\ op' = "from_i64_opt"
        /\ args' = [low |-> low, high |-> high]
        /\ ret' = from_i64_opt(low, high)
    /\ UNCHANGED cfg_test

ToI64 ==
    /\ op = "idle"
    /\ \E self \in PermValues :
        /\ op' = "to_i64"
        /\ args' = [self |-> self]
        /\ ret' = to_i64(self)
    /\ UNCHANGED cfg_test

TestPermCast ==
    /\ op = "idle"
    /\ \E v \in PermValues :
        /\ op' = "test_perm_cast"
        /\ args' = [v |-> v]
        /\ ret' = test_perm_cast(v)
    /\ UNCHANGED cfg_test

FromBitsTruncate ==
    /\ op = "idle"
    /\ \E raw \in U128Raws :
        /\ op' = "from_bits_truncate"
        /\ args' = [raw |-> raw]
        /\ ret' = from_bits_truncate(raw)
    /\ UNCHANGED cfg_test

Deserialize ==
    /\ op = "idle"
    /\ \/ \E input \in SerdeIntegers :
              /\ op' = "deserialize"
              /\ args' = [input |-> input]
              /\ ret' = deserialize(input)
       \/ \E input \in SerdeOthers :
              /\ op' = "deserialize"
              /\ args' = [input |-> input]
              /\ ret' = deserialize(input)
    /\ UNCHANGED cfg_test

SerdeRoundTrip ==
    /\ op = "idle"
    /\ \E v \in PermValues, is_human_readable \in BOOLEAN :
        /\ op' = "serde_round_trip"
        /\ args' = [v |-> v, is_human_readable |-> is_human_readable]
        /\ ret' = serde_round_trip(v, is_human_readable)
    /\ UNCHANGED cfg_test

Perms ==
    /\ op = "idle"
    /\ \E self \in {c \in CommandInstances :
                      /\ c.attachments # <<>> => c.command \in {"CreateMessage", "EditMessage"}
                      /\ c.embeds # <<>> => c.command = "CreateMessage"} :
        /\ op' = "perms"
        /\ args' = [self |-> self]
        /\ ret' = perms(self)
    /\ UNCHANGED cfg_test

Default ==
    /\ op = "idle"
    /\ op' = "default"
    /\ args' = <<>>
    /\ ret' = default
    /\ UNCHANGED cfg_test

WithElevation ==
    /\ op = "idle"
    /\ \E f \in UserFlagValues, ev \in ElevationLevels :
        /\ op' = "with_elevation"
        /\ args' = [f |-> f, ev |-> ev]
        /\ ret' = [flags |-> with_elevation(f, ev),
                   elevation |-> elevation(with_elevation(f, ev))]
    /\ UNCHANGED cfg_test

Next ==
    \/ ComputeOverwrites
    \/ Apply
    \/ Combine
    \/ FromI64
    \/ FromI64Opt
    \/ ToI64
    \/ TestPermCast
    \/ FromBitsTruncate
    \/ Deserialize
    \/ SerdeRoundTrip
    \/ Perms
    \/ Default
    \/ WithElevation

Spec == Init /\ [][Next]_vars

\* The overwrite engine alone: the calls of compute_overwrites and of the
\* Overwrite primitives.
NextOverwrites ==
    \/ ComputeOverwrites
    \/ Apply
    \/ Combine

OverwriteSpec == Init /\ [][NextOverwrites]_vars

\* The calls of compute_overwrites alone.
ComputeSpec == Init /\ [][ComputeOverwrites]_vars

---------------------------------------------------------------------------
(* Properties of compute_overwrites *)

Range(seq) == {seq[i] : i \in 1..Len(seq)}

\* a finished call of compute_overwrites with a base without ADMINISTRATOR
NonAdminCall == op = "compute_overwrites" /\ ADMINISTRATOR \cap args.self = {}

\* the entries for the actor's own id that are not entries of one of its roles
UserEntries ==
    IF args.user_id \in Range(args.roles)
    THEN {}
    ELSE {i \in 1..Len(args.overwrites) : args.overwrites[i].id = args.user_id}

\* the position of the recorded user overwrite, 0 when none is recorded
RecordedUser ==
    LET entries == UserEntries
    IN  IF entries = {} THEN 0
        ELSE CHOOSE i \in entries : \A j \in entries : i <= j

\* the entries the scan looks at
Scanned ==
    LET recorded == RecordedUser
    IN  IF recorded = 0 THEN 1..Len(args.overwrites) ELSE 1..recorded

\* the scanned entries of the actor's roles
RoleEntries ==
    LET roles == Range(args.roles)
    IN  {i \in Scanned : args.overwrites[i].id \in roles}

role_deny == UNION {args.overwrites[i].deny : i \in RoleEntries}
role_allow == UNION {args.overwrites[i].allow : i \in RoleEntries}
user_deny ==
    LET recorded == RecordedUser
    IN  IF recorded = 0 THEN {} ELSE args.overwrites[recorded].deny
user_allow ==
    LET recorded == RecordedUser
    IN  IF recorded = 0 THEN {} ELSE args.overwrites[recorded].allow

\* C1: for every base that contains ADMINISTRATOR, whatever the overwrites,
\* the roles and the user id, compute_overwrites returns exactly all().
C1_AdminReturnsAll ==
    (op = "compute_overwrites" /\ ADMINISTRATOR \subseteq args.self) => ret = all

\* C1 witness: an administrator whose role and own overwrite both deny or
\* allow something still gets all().
C1_Witness ==
    /\ op = "compute_overwrites"
    /\ ADMINISTRATOR \subseteq args.self
    /\ RecordedUser # 0
    /\ \E i \in RoleEntries : args.overwrites[i].deny = ADMINISTRATOR
    /\ ret = all

\* C2: for every base without ADMINISTRATOR the result is
\* (((base & !role_deny) | role_allow) & !user_deny) | user_allow, the role
\* sets being the unions over the scanned entries of the actor's roles and
\* the user sets those of the recorded user overwrite (empty when none).
C2_DenyThenAllowTwice ==
    NonAdminCall =>
        ret = ((((args.self \ role_deny) \cup role_allow) \ user_deny) \cup user_allow)

\* C2 witness: a role overwrite that denies a bit of base, a recorded user
\* overwrite that allows something, and a result different from base.
C2_Witness ==
    /\ NonAdminCall
    /\ role_deny \cap args.self # {}
    /\ RecordedUser # 0
    /\ user_allow # {}
    /\ ret # args.self

\* C3 as stated: for a non-admin base, for an entry whose id equals user_id
\* (user_id not in roles), the result contains every bit of that entry's
\* allow and no bit that is in its deny and not in its allow.
C3_AnyUserEntryWins ==
    NonAdminCall =>
        \A i \in UserEntries :
            /\ args.overwrites[i].allow \subseteq ret
            /\ (args.overwrites[i].deny \ args.overwrites[i].allow) \cap ret = {}

\* C3 amended: the same holds of the first entry whose id equals user_id
\* (user_id not in roles), even when base lacks the bit and a matching role
\* overwrite denies it, or a matching role overwrite allows it.
C3_FirstUserEntryWins ==
    (NonAdminCall /\ RecordedUser # 0) =>
        /\ args.overwrites[RecordedUser].allow \subseteq ret
        /\ (args.overwrites[RecordedUser].deny
                \ args.overwrites[RecordedUser].allow) \cap ret = {}

\* C3 witness: base lacks bit 32, a role of the actor denies SEND_MESSAGES,
\* the user overwrite allows it, and the result contains SEND_MESSAGES.
C3_Witness ==
    /\ NonAdminCall
    /\ RecordedUser # 0
    /\ ~(SEND_MESSAGES \subseteq args.self)
    /\ SEND_MESSAGES \subseteq role_deny
    /\ user_allow = SEND_MESSAGES
    /\ SEND_MESSAGES \subseteq ret

\* the scenario of the role conflict: role 1 allows SEND_MESSAGES, role 2
\* denies it, the actor has both roles and base is VIEW_ROOM
RoleConflictScenario ==
    /\ op = "compute_overwrites"
    /\ args.self = VIEW_ROOM
    /\ args.overwrites = <<Overwrite(1, SEND_MESSAGES, empty),
                           Overwrite(2, empty, SEND_MESSAGES)>>
    /\ args.roles = <<1, 2>>

\* the bits one scanned role overwrite allows and another one denies
RoleConflictBits ==
    UNION {args.overwrites[ij[1]].allow \cap args.overwrites[ij[2]].deny :
              ij \in {p \in RoleEntries \X RoleEntries : p[1] # p[2]}}

\* C4 as stated: a bit one matching role overwrite allows and another one
\* denies is not in the result, and in the scenario the result is VIEW_ROOM.
C4_RoleDenyWins ==
    /\ NonAdminCall => RoleConflictBits \cap ret = {}
    /\ RoleConflictScenario => ret = VIEW_ROOM

\* C4 amended: a bit one scanned matching role overwrite allows and another
\* one denies is in the result unless the recorded user overwrite denies it
\* without allowing it (the allow wins), and in the scenario the result is
\* exactly SEND_MESSAGES, that is bit 32 and VIEW_ROOM.
C4_RoleAllowWins ==
    /\ NonAdminCall => (RoleConflictBits \ (user_deny \ user_allow)) \subseteq ret
    /\ RoleConflictScenario => ret = Bit(32) \cup Bit(30)

\* C4 witness: the scenario, with its result.
C4_Witness == RoleConflictScenario /\ RoleConflictBits = SEND_MESSAGES /\ 32 \in ret

---------------------------------------------------------------------------
(* Properties of the Overwrite primitives *)

\* C5: apply(ow, base) = (base & !ow.deny) | ow.allow, bit by bit, and when
\* allow = deny = X the result contains X whether or not base contained it.
C5_ApplyDenyThenAllow ==
    op = "apply" =>
        /\ \A b \in U128Positions :
              b \in ret <=>
                  \/ b \in args.self.allow
                  \/ (b \in args.base /\ b \notin args.self.deny)
        /\ args.self.allow = args.self.deny => args.self.allow \subseteq ret

\* C5 witness: allow = deny = X, X not empty, base without X, result with X.
C5_Witness ==
    /\ op = "apply"
    /\ args.self.allow = args.self.deny
    /\ args.self.allow # {}
    /\ args.self.allow \cap args.base = {}
    /\ args.self.allow \subseteq ret

\* C6 as stated: when allow and deny of an overwrite overlap on a bit, deny
\* wins: apply(ow, base) contains no bit that is in both.
C6_OverlapDenyWins ==
    op = "apply" => (args.self.allow \cap args.self.deny) \cap ret = {}

\* C6 amended: when allow and deny of an overwrite overlap on a bit, allow
\* wins: apply(ow, base) contains every bit that is in both.
C6_OverlapAllowWins ==
    op = "apply" => (args.self.allow \cap args.self.deny) \subseteq ret

\* C6 witness: allow and deny overlap in part, on a bit base has, and the bit
\* stays.
C6_Witness ==
    /\ op = "apply"
    /\ args.self.allow # args.self.deny
    /\ \E b \in args.self.allow \cap args.self.deny : b \in args.base /\ b \in ret

\* C7: combine(a, b) has a's id, the union of the allows and the union of the
\* denies; its allow and deny are those of combine(b, a).
C7_CombineUnion ==
    op = "combine" =>
        /\ ret.id = args.self.id
        /\ ret.allow = args.self.allow \cup args.other.allow
        /\ ret.deny = args.self.deny \cup args.other.deny
        /\ ret.allow = combine(args.other, args.self).allow
        /\ ret.deny = combine(args.other, args.self).deny

\* C7 witness: two overwrites of different ids, allows and denies.
C7_Witness ==
    /\ op = "combine"
    /\ args.self.id # args.other.id
    /\ ~(args.other.allow \subseteq args.self.allow)
    /\ ~(args.self.deny \subseteq args.other.deny)
    /\ ret.id = args.self.id
    /\ combine(args.other, args.self).id = args.other.id

---------------------------------------------------------------------------
(* Properties of the split encoding *)

\* C8: for every Permissions value v of defined bits,
\* from_i64(low, high) with [low, high] = v.to_i64() is v.
C8_SplitRoundTrip == op = "test_perm_cast" => ret = args.v

\* C8 witness: all() of a build with the TEST flag, bit 127, comes back.
C8_Witness ==
    /\ op = "test_perm_cast"
    /\ args.v = all
    /\ 127 \in args.v
    /\ 63 \in args.v
    /\ ret = args.v

\* C9: from_i64 puts the pattern of low in bits 0..64 and that of high in bits
\* 64..128 and keeps the defined bits only, so a negative low sets no bit at
\* 64 or above; to_i64 returns bits 0..64 as low and bits 64..128 as high,
\* each negative exactly when its top bit is set.
C9_HalvesPlacement ==
    /\ op = "from_i64" =>
          /\ \A b \in U64Positions :
                /\ b \in ret <=> (b \in args.low /\ b \in all)
                /\ (b + 64) \in ret <=> (b \in args.high /\ (b + 64) \in all)
          /\ ret \subseteq U128Positions
          /\ (IsNegative(args.low) /\ args.high = I64Zero) =>
                ret \cap (64..127) = {}
    /\ op = "to_i64" =>
          /\ \A b \in U64Positions :
                /\ b \in ret[1] <=> b \in args.self
                /\ b \in ret[2] <=> (b + 64) \in args.self
          /\ ret[1] \subseteq U64Positions
          /\ ret[2] \subseteq U64Positions
          /\ IsNegative(ret[1]) <=> 63 \in args.self
          /\ IsNegative(ret[2]) <=> 127 \in args.self

\* C9 witness: low = -1 and high = 0 in a build that defines bit 127: the
\* result has the defined bits below 64 and nothing above.
C9_Witness ==
    /\ op = "from_i64"
    /\ cfg_test
    /\ args.low = U64Positions
    /\ args.high = I64Zero
    /\ ret = all \ TEST

\* C10: from_i64_opt never fails and takes a missing half as zero.
C10_MissingHalfIsZero ==
    op = "from_i64_opt" =>
        /\ ret \subseteq all
        /\ (args.low = None /\ args.high # None) =>
              ret = from_i64(I64Zero, args.high.val)
        /\ (args.low # None /\ args.high = None) =>
              ret = from_i64(args.low.val, I64Zero)
        /\ (args.low = None /\ args.high = None) => ret = empty
        /\ (args.low # None /\ args.high # None) =>
              ret = from_i64(args.low.val, args.high.val)

\* C10 witness: a present low half with defined bits and a missing high half.
C10_Witness ==
    /\ op = "from_i64_opt"
    /\ args.low # None
    /\ args.high = None
    /\ ret # empty
    /\ ret = args.low.val \cap all

---------------------------------------------------------------------------
(* Properties of the bit set and of its (de)serialization *)

\* the positions of the flags of the build, read off the declarations
DefinedPositions ==
    (0..14) \cup (30..43) \cup (60..63) \cup (IF cfg_test THEN {127} ELSE {})

\* C11: from_bits_truncate(raw) has a result for every raw value: the raw bits
\* restricted to the defined bits.  The result is within all(), every defined
\* bit of raw is kept and every other bit is dropped.
C11_TruncateKeepsDefinedBits ==
    op = "from_bits_truncate" =>
        /\ ret \subseteq all
        /\ \A b \in U128Positions :
              b \in ret <=> (b \in args.raw /\ b \in DefinedPositions)

\* C11 witness: a raw value with defined and undefined bits: the defined ones
\* are kept, the others are gone.
C11_Witness ==
    /\ op = "from_bits_truncate"
    /\ 15 \in args.raw
    /\ 32 \in args.raw
    /\ 32 \in ret
    /\ 15 \notin ret


IntegerKinds == {"u128", "u64", "i128", "i64"}

IsDigits(s) == Len(s) > 0 /\ \A i \in 1..Len(s) : \E d \in 1..10 : DecimalDigits[d] = s[i]

\* an integer-shaped string: an optional sign and digits
IsIntegerString(s) ==
    \/ IsDigits(s)
    \/ Len(s) > 1 /\ s[1] \in {"+", "-"} /\ IsDigits(Tail(s))

DigitOf(c) == (CHOOSE d \in 1..10 : DecimalDigits[d] = c) - 1

RECURSIVE StripZeros(_)
StripZeros(s) == IF Len(s) > 1 /\ s[1] = "0" THEN StripZeros(Tail(s)) ELSE s

\* digits s, without leading zeros, are a number not above digits t
DigitsLeq(s, t) ==
    \/ Len(s) < Len(t)
    \/ /\ Len(s) = Len(t)
       /\ \/ s = t
          \/ \E i \in 1..Len(s) :
                /\ DigitOf(s[i]) < DigitOf(t[i])
                /\ \A j \in 1..(i - 1) : s[j] = t[j]

\* the string of an unsigned integer below 2^128: digits, or '+' and digits
IsU128String(s) ==
    LET digits == IF Len(s) > 1 /\ s[1] = "+" THEN Tail(s) ELSE s
    IN  IsDigits(digits) /\ DigitsLeq(StripZeros(digits), U128MaxDigits)

C13_I64Reinterpreted ==
    (op = "deserialize" /\ args.input.kind = "i64") =>
        /\ ret = Ok(from_bits_truncate(args.input.v \cap U64Positions))
        /\ ret = Ok(from_i64(args.input.v, I64Zero))
        /\ ret.val \cap (64..127) = {}

\* the decimal strings of DEFAULT and of all() in the two builds
DefaultDigits ==
    <<"6", "9", "1", "7", "5", "3", "5", "4", "9", "4", "7", "8", "8", "0", "9", "6", "0", "0", "0">>
AllDigits ==
    <<"1", "7", "2", "9", "3", "8", "4", "0", "1", "6", "0", "2", "1", "5", "0", "3", "9", "9", "9", "9">>
AllTestDigits ==
    <<"1", "7", "0", "1", "4", "1", "1", "8", "3", "4", "6", "0", "4", "6", "9", "2", "3", "1", "7", "4", "8", "9", "8", "1", "1", "4", "3", "8", "7", "6", "0", "9", "9", "1", "4", "5", "7", "2", "7">>

\* C14: on a human-readable surface a value is written as the base-10 string
\* of its 128-bit unsigned value (digits only, no leading zero; "0" for
\* empty(), the known strings for DEFAULT and all()), and deserializing that
\* string gives the value back.
C14_DecimalStringRoundTrip ==
    (op = "serde_round_trip" /\ args.is_human_readable) =>
        /\ ret.ser.kind = "str"
        /\ IsDigits(ret.ser.v)
        /\ StripZeros(ret.ser.v) = ret.ser.v
        /\ args.v = empty => ret.ser.v = <<"0">>
        /\ args.v = DEFAULT => ret.ser.v = DefaultDigits
        /\ args.v = all => ret.ser.v = (IF cfg_test THEN AllTestDigits ELSE AllDigits)
        /\ ret.de = Ok(args.v)

\* C14 witness: all() of a build with bit 127, 39 digits, comes back.
C14_Witness ==
    /\ op = "serde_round_trip"
    /\ args.is_human_readable
    /\ args.v = all
    /\ 127 \in args.v
    /\ ret.ser = Value("str", AllTestDigits)
    /\ ret.de = Ok(all)


---------------------------------------------------------------------------
(* Properties of Command::perms *)

\* Every rule the command type declares, on a top-level field or on a field
\* of the body struct
DeclaredRules(name) ==
    Declaration(name).field_rules \o Declaration(name).body_field_rules

NoRuleHolds(self) ==
    \A i \in DOMAIN DeclaredRules(self.command) :
        ~cond(self, DeclaredRules(self.command)[i])

\* C15: CreateMessage.perms() with an empty attachments list does not contain
\* ATTACH_FILES; with one or more attachments it contains ATTACH_FILES, and
\* every other bit is the same as for the identical command without
\* attachments.
C15_AttachmentsRequireAttachFiles ==
    (op = "perms" /\ args.self.command = "CreateMessage") =>
        IF args.self.attachments = <<>>
        THEN ~contains(ret, ATTACH_FILES)
        ELSE /\ contains(ret, ATTACH_FILES)
             /\ ret \ ATTACH_FILES
                  = perms([args.self EXCEPT !.attachments = <<>>]) \ ATTACH_FILES

\* C16: perms() contains the extra permission of every declared rule whose
\* predicate holds on the instance, the rules on fields of the body struct
\* included (EMBED_LINKS for embeds, ATTACH_FILES for attachments).
C16_EveryDeclaredRuleEvaluated ==
    op = "perms" =>
        \A i \in DOMAIN DeclaredRules(args.self.command) :
            LET rule == DeclaredRules(args.self.command)[i]
            IN  cond(args.self, rule) =>
                    contains(ret, perms_macro(rule.field_perm))

\* C17: perms() contains the static base of the command type, and is exactly
\* the base when no declared predicate holds: SEND_MESSAGES for CreateMessage,
\* EditMessage and StartTyping, READ_MESSAGE_HISTORY for GetMessage and
\* GetMessages, empty() for a command without `where`.
C17_StaticBaseAlwaysRequired ==
    op = "perms" =>
        LET name == args.self.command
            base == perms_macro(Declaration(name).perm)
        IN  /\ contains(ret, base)
            /\ NoRuleHolds(args.self) => ret = base
            /\ name \in {"CreateMessage", "EditMessage", "StartTyping"}
                    => contains(ret, SEND_MESSAGES)
            /\ name \in {"GetMessage", "GetMessages"}
                    => contains(ret, READ_MESSAGE_HISTORY)
            /\ name \in {"PinMessage", "PatchRoom"} => ret = empty

C17_Witness ==
    /\ op = "perms"
    /\ args.self = Command("CreateMessage", <<>>, <<>>)
    /\ ret = SEND_MESSAGES


---------------------------------------------------------------------------
(* Properties of DEFAULT *)

DefaultFlags ==
    {CHANGE_NICKNAME, VIEW_ROOM, READ_MESSAGE_HISTORY, SEND_MESSAGES,
     USE_EXTERNAL_EMOTES, ADD_REACTIONS, EMBED_LINKS, ATTACH_FILES,
     SEND_TTS_MESSAGES, CONNECT, SPEAK}

PrivilegedFlags ==
    {ADMINISTRATOR, KICK_MEMBERS, BAN_MEMBERS, MANAGE_PARTY, MANAGE_ROOMS,
     MANAGE_NICKNAMES, MANAGE_ROLES, MANAGE_WEBHOOKS, MANAGE_EXPRESSIONS,
     MANAGE_PERMS, MANAGE_MESSAGES}

\* C18: Permissions::default() returns DEFAULT, which is the union of exactly
\* the eleven member flags (bits 13, 30, 31, 32, 37, 38, 39, 40, 42, 61, 62),
\* a strict subset of all(), without ADMINISTRATOR and without any MANAGE_*,
\* KICK or BAN flag.
C18_DefaultIsFixedUnion ==
    op = "default" =>
        /\ ret = DEFAULT
        /\ ret = UNION DefaultFlags
        /\ ret = {p \in U128Positions :
                    p \in {13, 30, 31, 32, 37, 38, 39, 40, 42, 61, 62}}
        /\ contains(all, ret) /\ ret # all
        /\ \A flag \in PrivilegedFlags : ~contains(ret, flag)

C18_Witness ==
    /\ op = "default"
    /\ \A flag \in DefaultFlags : contains(ret, flag)
    /\ ~contains(ret, ADMINISTRATOR)


---------------------------------------------------------------------------
(* Properties of UserFlags *)

\* C19: for every UserFlags value f (empty() and all() among them) and every
\* level ev of None, Bot, Staff and System, f.with_elevation(ev).elevation()
\* is ev; with_elevation changes no bit outside the three ELEVATION bits.
C19_ElevationRoundTrip ==
    op = "with_elevation" =>
        /\ args.ev \in {"None", "Bot", "Staff", "System"}
                => ret.elevation = args.ev
        /\ ret.flags \ ELEVATION = args.f \ ELEVATION

C19_Witness ==
    /\ op = "with_elevation"
    /\ args.f = UserFlags_all
    /\ args.ev = "Bot"
    /\ ret.elevation = "Bot"
    /\ ret.flags = UserFlags_all \ (ELEVATION_2 \cup ELEVATION_3)


---------------------------------------------------------------------------
(* Properties of the scan of compute_overwrites *)

\* C20: the scan stops at the first entry whose id equals user_id (and is not
\* in roles): the result is the result for the list cut after that entry, so
\* no later entry, be it an overwrite of one of the actor's roles or a further
\* entry of the same user, has an effect.
C20_ScanStopsAtUserEntry ==
    (op = "compute_overwrites" /\ RecordedUser # 0) =>
        ret = compute_overwrites(args.self,
                                 SubSeq(args.overwrites, 1, RecordedUser),
                                 args.roles, args.user_id)

\* C20 witness: the user entry comes first, the entry after it is an overwrite
\* of a role of the actor that allows SEND_MESSAGES, and the result is without
\* SEND_MESSAGES.
C20_Witness ==
    /\ NonAdminCall
    /\ RecordedUser = 1
    /\ Len(args.overwrites) > 1
    /\ args.overwrites[2].id \in Range(args.roles)
    /\ args.overwrites[2].allow = SEND_MESSAGES
    /\ ~contains(ret, SEND_MESSAGES)


---------------------------------------------------------------------------
(* Properties of the role overwrites of compute_overwrites *)

\* every entry of one of the actor's roles, scanned or not
AllRoleEntries ==
    LET roles == Range(args.roles)
    IN  {i \in 1..Len(args.overwrites) : args.overwrites[i].id \in roles}

\* the list is sorted role-first: no role entry after the recorded user entry
RolesFirst == AllRoleEntries = RoleEntries

\* the permutations of the positions `entries` of the list, but the identity
RolePermutations(entries) ==
    {p \in [entries -> entries] :
        /\ \A i, j \in entries : p[i] = p[j] => i = j
        /\ \E i \in entries : p[i] # i}

Permuted(p) ==
    [i \in 1..Len(args.overwrites) |->
        IF i \in DOMAIN p THEN args.overwrites[p[i]] ELSE args.overwrites[i]]

\* the list with a copy of entry k put in after position j
WithDuplicate(k, j) ==
    [i \in 1..(Len(args.overwrites) + 1) |->
        IF i <= j THEN args.overwrites[i]
        ELSE IF i = j + 1 THEN args.overwrites[k]
        ELSE args.overwrites[i - 1]]

\* the first and the last position after which a further role entry keeps
\* the list role-first: the front of the list, and its end or, the user entry
\* being at position `recorded` (0: none), right before the user entry
RolePositions(recorded) ==
    {0, IF recorded = 0 THEN Len(args.overwrites) ELSE recorded - 1}

\* C21: for a non-admin base and a list whose role entries all precede the
\* user entry, every permutation of the role entries and every duplication of
\* one of them (the copy put in front of the list or behind its last role
\* position) gives the same result; the allow of every role entry and the
\* deny of every role entry take effect wherever the entry stands (up to what
\* the user overwrite changes afterwards).
C21_RoleOrderIrrelevant ==
    NonAdminCall =>
        LET entries == RoleEntries
            recorded == RecordedUser
            allowed == UNION {args.overwrites[i].allow : i \in entries}
            u_allow == IF recorded = 0 THEN {} ELSE args.overwrites[recorded].allow
            u_deny == IF recorded = 0 THEN {} ELSE args.overwrites[recorded].deny
        IN  (entries # {} /\ AllRoleEntries = entries) =>
              /\ \A p \in RolePermutations(entries) :
                    compute_overwrites(args.self, Permuted(p), args.roles,
                                       args.user_id) = ret
              /\ \A k \in entries : \A j \in RolePositions(recorded) :
                    compute_overwrites(args.self, WithDuplicate(k, j), args.roles,
                                       args.user_id) = ret
              /\ \A k \in entries :
                    /\ (args.overwrites[k].allow \ (u_deny \ u_allow)) \subseteq ret
                    /\ ((args.overwrites[k].deny \ (allowed \cup u_allow)) \cap ret) = {}

\* C21 witness: two overwrites of two roles of the actor, the first denies
\* SEND_MESSAGES and the second allows it, and the result has SEND_MESSAGES
\* although the base has not.
C21_Witness ==
    /\ NonAdminCall
    /\ RolesFirst
    /\ Len(args.overwrites) > 1
    /\ args.overwrites[1].id # args.overwrites[2].id
    /\ {1, 2} \subseteq RoleEntries
    /\ args.overwrites[1].deny = SEND_MESSAGES
    /\ args.overwrites[2].allow = SEND_MESSAGES
    /\ ~contains(args.self, SEND_MESSAGES)
    /\ contains(ret, SEND_MESSAGES)


---------------------------------------------------------------------------
(* compute_overwrites and the Overwrite primitives *)

\* the overwrite with empty allow and deny
EmptyOverwrite(id) == Overwrite(id, empty, empty)

\* the fold by Overwrite::combine, onto acc, of the entries at the positions
\* `entries` from position i on
RECURSIVE CombineEntries(_, _, _)
CombineEntries(entries, i, acc) ==
    IF i > Len(args.overwrites)
    THEN acc
    ELSE CombineEntries(entries, i + 1,
            IF i \in entries THEN combine(acc, args.overwrites[i]) ELSE acc)

\* the user overwrite recorded at position `recorded`, the empty overwrite
\* when there is none (0)
RecordedUserOverwrite(recorded) ==
    IF recorded = 0
    THEN EmptyOverwrite(args.user_id)
    ELSE args.overwrites[recorded]

\* C22: for a non-admin base the result of compute_overwrites is
\* U.apply(R.apply(base)), R being the fold by Overwrite::combine of the
\* scanned entries whose id is in roles (the empty overwrite when there are
\* none) and U the recorded user overwrite (the empty overwrite when there is
\* none).
C22_AgreesWithPrimitives ==
    NonAdminCall =>
        LET entries == RoleEntries
            R == CombineEntries(entries, 1, EmptyOverwrite(0))
            U == RecordedUserOverwrite(RecordedUser)
        IN  ret = apply(U, apply(R, args.self))

\* C22 witness: a scanned role entry that denies a bit of the base, then the
\* recorded user overwrite that allows something, and a result that differs
\* from the base.
C22_Witness ==
    /\ NonAdminCall
    /\ RoleEntries = {1}
    /\ RecordedUser = 2
    /\ args.overwrites[1].deny \cap args.self # {}
    /\ user_allow # {}
    /\ ret # args.self


---------------------------------------------------------------------------
(* Frame of compute_overwrites *)

\* the bits in the allow or the deny of a considered overwrite: a scanned
\* role entry or the recorded user entry
ConsideredBits == role_allow \cup role_deny \cup user_allow \cup user_deny

\* the entries whose id is in roles or equals user_id, in their order
MatchingEntries ==
    SelectSeq(args.overwrites,
              LAMBDA o : o.id \in Range(args.roles) \/ o.id = args.user_id)

\* C23: for a non-admin base, a bit in no considered overwrite's allow or deny
\* is in the result iff it is in the base; the entries whose id is neither in
\* roles nor equal to user_id contribute nothing; with an empty list or a
\* list without a matching entry the result is the base.
C23_Frame ==
    NonAdminCall =>
        LET considered == ConsideredBits
            matching == MatchingEntries
        IN  /\ ret \ considered = args.self \ considered
            /\ ret = compute_overwrites(args.self, matching, args.roles,
                                        args.user_id)
            /\ matching = <<>> => ret = args.self

\* C23 witness: a list of two entries of other subjects that allow and deny
\* bits, among them a bit of the base, and the result is the base.
C23_Witness ==
    /\ NonAdminCall
    /\ Len(args.overwrites) > 1
    /\ MatchingEntries = <<>>
    /\ args.overwrites[1].allow # {}
    /\ args.overwrites[2].deny \cap args.self # {}
    /\ args.self # {}
    /\ ret = args.self


---------------------------------------------------------------------------
(* The administrator check of compute_overwrites *)

\* the deny-then-allow result, roles first and the user overwrite after
OrdinaryResult ==
    (((args.self \ role_deny) \cup role_allow) \ user_deny) \cup user_allow

AdminBaseCall == op = "compute_overwrites" /\ is_admin(args.self)

\* C24 as stated: when the base lacks ADMINISTRATOR and a matching role or
\* user overwrite allows ADMINISTRATOR, the result is the ordinary
\* deny-then-allow result, not expanded to all(), and contains ADMINISTRATOR;
\* when the base has ADMINISTRATOR the result has it whatever the overwrites
\* deny.
C24_AllowedAdminIsInResult ==
    /\ (NonAdminCall /\ contains(role_allow \cup user_allow, ADMINISTRATOR)) =>
          /\ ret = OrdinaryResult
          /\ is_admin(ret)
    /\ AdminBaseCall => is_admin(ret)

\* C24 amended: when the base lacks ADMINISTRATOR the result is the ordinary
\* deny-then-allow result and is never expanded to all(); it contains
\* ADMINISTRATOR when the recorded user overwrite allows it, or when a scanned
\* role overwrite allows it and the recorded user overwrite does not deny it;
\* a role's allow of ADMINISTRATOR that the user overwrite denies without
\* allowing it leaves the result without it.  When the base has
\* ADMINISTRATOR the result has it whatever the overwrites deny.
C24_AdminCheckedOnBaseOnly ==
    /\ NonAdminCall =>
          LET r_allow == role_allow
              u_allow == user_allow
              u_deny == user_deny
          IN  /\ ret = (((args.self \ role_deny) \cup r_allow) \ u_deny) \cup u_allow
              /\ (contains(u_allow, ADMINISTRATOR)
                    \/ (/\ contains(r_allow, ADMINISTRATOR)
                        /\ ~contains(u_deny, ADMINISTRATOR))) => is_admin(ret)
              /\ (contains(u_deny, ADMINISTRATOR)
                    /\ ~contains(u_allow, ADMINISTRATOR)) => ~is_admin(ret)
    /\ AdminBaseCall => is_admin(ret)

\* C24 witness: a base without ADMINISTRATOR, a scanned role overwrite that
\* allows it, and a result that has ADMINISTRATOR and is not all().
C24_Witness ==
    /\ NonAdminCall
    /\ contains(role_allow, ADMINISTRATOR)
    /\ is_admin(ret)
    /\ ret # all
    /\ ret = args.self \cup ADMINISTRATOR


---------------------------------------------------------------------------
(* Composite flags *)

\* an overwrite, or the overwrites considered by compute_overwrites, that
\* deny SEND_MESSAGES and nothing else and allow nothing, on a base that
\* contains READ_MESSAGE_HISTORY
DenySendOnReadHistory ==
    \/ /\ op = "apply"
       /\ args.self.deny = SEND_MESSAGES
       /\ args.self.allow = empty
       /\ contains(args.base, READ_MESSAGE_HISTORY)
    \/ /\ NonAdminCall
       /\ role_deny \cup user_deny = SEND_MESSAGES
       /\ role_allow \cup user_allow = empty
       /\ contains(args.self, READ_MESSAGE_HISTORY)

\* C25: SEND_MESSAGES and READ_MESSAGE_HISTORY both include the VIEW_ROOM
\* bit, so denying SEND_MESSAGES (allowing nothing) on a base that contains
\* READ_MESSAGE_HISTORY clears bit 30 too: the result fails
\* contains(VIEW_ROOM) and contains(READ_MESSAGE_HISTORY) although bit 31 is
\* still set.
C25_CompositeDenyClearsViewRoom ==
    DenySendOnReadHistory =>
        /\ VIEW_ROOM \subseteq (SEND_MESSAGES \cap READ_MESSAGE_HISTORY)
        /\ 30 \notin ret
        /\ ~contains(ret, VIEW_ROOM)
        /\ ~contains(ret, READ_MESSAGE_HISTORY)
        /\ 31 \in ret
        /\ 32 \notin ret

C25_Witness ==
    /\ op = "apply"
    /\ args.self.deny = SEND_MESSAGES
    /\ args.self.allow = empty
    /\ args.base = READ_MESSAGE_HISTORY
    /\ ret = Bit(31)


---------------------------------------------------------------------------
(* Role membership comes first in the scan *)

\* the scan of the recorded call
RecordedScan ==
    ScanOverwrites(args.overwrites, 1, args.roles, args.user_id, empty, empty)

\* C26: an overwrite whose id is in roles is accumulated as a role overwrite
\* and never ends the scan, even when the id also equals user_id: when
\* user_id is one of the roles, every entry of a role is accumulated, none is
\* recorded as the user overwrite, and the result is the base with their
\* denies removed and their allows added.  An entry is recorded as the user
\* overwrite only when its id equals user_id and is not in roles.
C26_RoleMembershipFirst ==
    op = "compute_overwrites" =>
        LET scan == RecordedScan
            entries == RoleEntries
            every == AllRoleEntries
            recorded == RecordedUser
            is_role == args.user_id \in Range(args.roles)
        IN  /\ scan.allow = UNION {args.overwrites[i].allow : i \in entries}
            /\ scan.deny = UNION {args.overwrites[i].deny : i \in entries}
            /\ is_role =>
                  /\ scan.user_overwrite = None
                  /\ entries = every
                  /\ NonAdminCall =>
                        ret = (args.self
                                \ UNION {args.overwrites[i].deny : i \in every})
                              \cup UNION {args.overwrites[i].allow : i \in every}
            /\ scan.user_overwrite # None =>
                  /\ ~is_role
                  /\ recorded # 0
                  /\ scan.user_overwrite
                        = Some(<<args.overwrites[recorded].deny,
                                 args.overwrites[recorded].allow>>)
            /\ (\E i \in 1..Len(args.overwrites) :
                    args.overwrites[i].id = args.user_id /\ ~is_role)
                  => scan.user_overwrite # None

\* C26 witness: user_id is also a role of the actor; the first entry has that
\* id and denies VIEW_ROOM, the entry after it is a role entry that allows
\* SEND_MESSAGES, and the result has SEND_MESSAGES: the scan went on.
C26_Witness ==
    /\ NonAdminCall
    /\ args.user_id \in Range(args.roles)
    /\ Len(args.overwrites) > 1
    /\ args.overwrites[1].id = args.user_id
    /\ args.overwrites[1].deny = VIEW_ROOM
    /\ args.overwrites[2].id \in Range(args.roles)
    /\ args.overwrites[2].allow = SEND_MESSAGES
    /\ ~contains(args.self, SEND_MESSAGES)
    /\ contains(ret, SEND_MESSAGES)

====
